---- MODULE Spec2Model ----
(***************************************************************************)
(* Model of the sushii-sns content-retrieval pipeline.                     *)
(*                                                                         *)
(*   Spec        the orchestrator: snsHandler driving the snsService       *)
(*               generator (src/src/handlers/sns/handler.ts)               *)
(*   SpecIg      the job-based provider: InstagramPostDownloader           *)
(*               fetchContent / waitUntilDataReady / fetchSnapshotData     *)
(*               (src/src/handlers/sns/downloaders/instagramPost.ts)       *)
(*   FairSpecIg  SpecIg with the event loop's progress guarantee           *)
(*   SpecFn      the pure functions, each applied once to arguments drawn  *)
(*               from bounded sets: findAllSnsLinks, chunkArray,           *)
(*               buildDiscordAttachments, itemsToMessageContents, the      *)
(*               story bucketing, formatDiscordTitle, getFileExtFromURL    *)
(*   SpecDl      SnsDownloader.downloadImages: one promise per URL and     *)
(*               Promise.all over them (src/unnamed/part_000)              *)
(*   SpecSink    the status sink: progressUpdater of snsHandler, called    *)
(*               by fetchContent without await                             *)
(*   SpecPar     two invocations of snsHandler for two incoming messages,  *)
(*               interleaved at their suspension points                    *)
(*                                                                         *)
(* Every action is one run of the code between two suspension points       *)
(* (await) or one loop step of it.                                         *)
(***************************************************************************)
EXTENDS Integers, Sequences, FiniteSets, TLC

VARIABLES
    \* ---- orchestrator (handler.ts) ----
    msg,          \* the incoming message: [sendable, dl, content]
    posts,        \* const posts = findAllSnsLinks(msg.content)
    acked,        \* the un-awaited suppressEmbeds / react / sendTyping were issued
    hpc,          \* position of snsHandler
    gpc,          \* position of the snsService generator
    gIdx,         \* index of the link the generator's for-loop is at
    postDatas,    \* the PostData[] last yielded by the generator
    pIdx,         \* index of the postData the inner for-loop is at
    bIdx,         \* index of the fileMsg being sent
    attachments,  \* const attachments: Attachment[] of the current postData
    mIdx,         \* index of the postMsg being sent
    plog,         \* send events of the current postData, in order
    raised,       \* the step that threw into the try block, or "none"
    failSends,    \* calls of msg.channel.send(errMsg) issued
    failDelivered,\* failure messages the host accepted
    sentEarlier,  \* a message of an earlier postData is in the channel
    donePosts,    \* postDatas of the last yield whose every message was accepted
    inFlight,     \* fetchContent calls that have not settled
    \* ---- job-based provider (instagramPost.ts) ----
    ipc,          \* position of fetchContent
    now,          \* Date.now(), ms since fetchContent was called
    cancelAt,     \* let cancelAt = Date.now() + 10 * 1000
    pollState,    \* protocol state: Submitted, Polling, Ready, Failed, TimedOut
    lastResp,     \* kind of the last poll response
    lastAt,       \* Date.now() when the last poll response was handled
    prevAll404,   \* every poll response before the last one was a 404
    polls,        \* poll requests issued (saturates at MaxPolls)
    nTrigger,     \* creation requests issued
    nRetrieve,    \* retrieval requests issued
    nProgress,    \* progressCallback calls issued
    nDownload,    \* downloadImages calls issued
    mediaUrls,    \* number of media URLs taken from the retrieved post
    igResult,     \* what fetchContent returned: "none", "threw" or "postData"
    trigResp,     \* kind of the creation response, or "none"
    snapResp,     \* kind of the retrieval response, or "none"
    \* ---- pure functions (util.ts, link extraction) ----
    call,         \* the function called and its arguments
    result,       \* <<>> before the call returned, <<value>> after
    \* ---- downloadImages (downloaders/base.ts) ----
    dpc,          \* position of the caller of downloadImages
    dlUrls,       \* the urls argument
    dlSlots,      \* ps: the state of each mapped promise and its Buffer
    dlOrder,      \* indexes of ps in the order in which they settled
    dlAll,        \* state of Promise.all(ps)
    dlValue,      \* the array Promise.all(ps) fulfilled with
    \* ---- status sink (progressUpdater of handler.ts) ----
    progressMsg,  \* let progressMsg: 0 for null, else the status message's id
    sinkOps,      \* awaited channel operations that have not settled
    channel,      \* ids of the status messages that are in the channel
    nSends,       \* msg.channel.send(content) calls issued by the sink
    nUpdates,     \* calls of progressUpdater made by the downloader
    doneIssued,   \* the last call of progressUpdater had done = true
    sinkFailed,   \* the host rejected an operation of the sink
    \* ---- concurrent invocations of snsHandler ----
    invs,         \* the local bindings of each invocation of snsHandler
    hostMsgs      \* the messages the host created: [id, by, kind]

hvars == <<msg, posts, acked, hpc, gpc, gIdx, postDatas, pIdx, bIdx,
           attachments, mIdx, plog, raised, failSends, failDelivered, sentEarlier,
           donePosts, inFlight>>
ivars == <<ipc, now, cancelAt, pollState, lastResp, lastAt, prevAll404, polls,
           nTrigger, nRetrieve, nProgress, nDownload, mediaUrls, igResult,
           trigResp, snapResp>>
fvars == <<call, result>>
dvars == <<dpc, dlUrls, dlSlots, dlOrder, dlAll, dlValue>>
svars == <<progressMsg, sinkOps, channel, nSends, nUpdates, doneIssued,
           sinkFailed>>
pvars == <<invs, hostMsgs>>
vars == <<hvars, ivars, fvars, dvars, svars, pvars>>

\* What a step of one component leaves alone.
exceptH == <<ivars, fvars, dvars, svars, pvars>>
exceptI == <<hvars, fvars, dvars, svars, pvars>>
exceptF == <<hvars, ivars, dvars, svars, pvars>>
exceptD == <<hvars, ivars, fvars, svars, pvars>>
exceptS == <<hvars, ivars, fvars, dvars, pvars>>
exceptP == <<hvars, ivars, fvars, dvars, svars>>

(***************************************************************************)
(* Bounds of the model                                                     *)
(***************************************************************************)
MaxTokens == 2      \* URLs in one message content
MaxPosts == 2       \* PostData records one fetchContent returns
MaxPolls == 3       \* the poll-request counter saturates here
MaxMedia == 2       \* media entries of one retrieved post
HeaderLen == 60     \* characters of a content message's title + post URL
UrlLen == 150       \* characters of one host-assigned attachment URL
MaxText == 3        \* tokens of a text given to findAllSnsLinks
MaxArr == 5         \* elements of an array given to chunkArray
MaxChunk == 3       \* chunk size given to chunkArray
MaxItems == 3       \* items given to itemsToMessageContents
MaxUrls == 3        \* URLs given to downloadImages
MaxStories == 3     \* items of one stories response
MaxUpdates == 3     \* progress updates of one fetchContent
MaxPath == 4        \* tokens of a URL after its host
MaxMirrors == 3     \* URLs in the url_list of a TikTok response
MaxParLinks == 2    \* links in the message of one concurrent invocation
MaxParUpdates == 2  \* progress updates of one concurrent invocation

(***************************************************************************)
(* Program constants                                                       *)
(***************************************************************************)
MAX_ATTACHMENTS_PER_MESSAGE == 10
MaxContentLen == 2000
SleepMs == 500
PollTimeoutMs == 10 * 1000

Min(a, b) == IF a < b THEN a ELSE b

RECURSIVE SeqsUpTo(_, _)
SeqsUpTo(S, n) ==
    IF n = 0 THEN {<<>>}
    ELSE LET shorter == SeqsUpTo(S, n - 1)
         IN shorter \cup {Append(s, x) : s \in {t \in shorter : Len(t) = n - 1}, x \in S}

(***************************************************************************)
(* Link extraction                                                         *)
(***************************************************************************)
Platforms == {"twitter", "instagram", "instagram-story"}

\* A text is a sequence of tokens. A platform name stands for a URL of the
\* shape its URL_REGEX is written for, without query and fragment:
\*   "twitter"          https://x.com/<user>/status/<id>
\*   "instagram"        https://www.instagram.com/p/<id>/
\*   "instagram-story"  https://www.instagram.com/<user>/
\* "?" is the character that opens a query string and " " is white space.
\* Neighbouring tokens are adjacent in the text, with nothing between them.
TextTokens == Platforms \cup {"?", " "}

\* A message content is the sequence of the URLs it holds, each named by the
\* platform whose URL_REGEX matches it. The story URL_REGEX ends in $, so it
\* matches the last URL of the content only.
Contents ==
    {c \in SeqsUpTo(Platforms, MaxTokens) :
        \A i \in 1..(Len(c) - 1) : c[i] # "instagram-story"}

\* \S+ is greedy: the run of tokens that are not white space, from j on.
RECURSIVE RunEnd(_, _)
RunEnd(content, j) ==
    IF j < Len(content) /\ content[j + 1] # " "
    THEN RunEnd(content, j + 1)
    ELSE j

\* The last token of the match of the platform's URL_REGEX that starts at
\* token i, or 0 when the regex does not match there.
\*   twitter: ...(\d+)(/(?:photo|video)/\d)?/?(?:\?\S+)?(?:#\S+)?
\*   instagram: ...(?:([\w.]+)\/reels?\/|(?:p|reels?|tv)\/)([\w-]+)\/
\*   instagram-story: ...instagram\.com\/([\w-]{3,})\/$
MatchEnd(content, platform, i) ==
    CASE platform = "twitter" ->
            IF content[i] # "twitter" THEN 0
            ELSE IF /\ i + 2 <= Len(content)
                    /\ content[i + 1] = "?"
                    /\ content[i + 2] # " "
                 THEN RunEnd(content, i + 2)
                 ELSE i
      [] platform = "instagram" ->
            IF content[i] = "instagram" THEN i ELSE 0
      [] platform = "instagram-story" ->
            IF content[i] = "instagram-story" /\ i = Len(content) THEN i ELSE 0

\* content.matchAll(this.URL_REGEX): leftmost match, then on from its end.
\* A link is its platform and the tokens url..end its match covers.
RECURSIVE findUrlsFrom(_, _, _)
findUrlsFrom(content, platform, i) ==
    IF i > Len(content) THEN <<>>
    ELSE LET e == MatchEnd(content, platform, i)
         IN IF e > 0
            THEN <<[platform |-> platform, url |-> i, end |-> e]>>
                    \o findUrlsFrom(content, platform, e + 1)
            ELSE findUrlsFrom(content, platform, i + 1)

findUrls(content, platform) == findUrlsFrom(content, platform, 1)

findAllSnsLinksInstagramFirst(content) ==
    findUrls(content, "instagram") \o findUrls(content, "twitter")
        \o findUrls(content, "instagram-story")

\* return [...twitterLinks, ...instagramLinks, ...instagramStoryLinks]
findAllSnsLinks(content) ==
    findUrls(content, "twitter") \o findUrls(content, "instagram")
        \o findUrls(content, "instagram-story")

\* The switch has no case for "instagram-story".
getPlatformNoStory(metadata) ==
    IF metadata.platform \in {"twitter", "instagram"}
    THEN metadata.platform ELSE "throw"

\* getPlatform: the downloader registered for the tag, or the thrown error.
getPlatform(metadata) ==
    IF metadata.platform \in Platforms THEN metadata.platform ELSE "throw"

(***************************************************************************)
(* Chunking and assembly                                                   *)
(***************************************************************************)
\* The elements left over after the last full chunk are dropped.
RECURSIVE chunkArrayDropRemainder(_, _)
chunkArrayDropRemainder(arr, size) ==
    IF Len(arr) < size THEN <<>>
    ELSE <<SubSeq(arr, 1, size)>>
            \o chunkArrayDropRemainder(SubSeq(arr, size + 1, Len(arr)), size)

RECURSIVE chunkArray(_, _)
chunkArray(arr, size) ==
    IF Len(arr) = 0 THEN <<>>
    ELSE <<SubSeq(arr, 1, Min(size, Len(arr)))>>
            \o chunkArray(SubSeq(arr, Min(size, Len(arr)) + 1, Len(arr)), size)

\* Items are records with a length in characters; a body is the sequence of
\* the items joined into it, each followed by a newline.
RECURSIVE BodyLen(_)
BodyLen(body) ==
    IF body = <<>> THEN 0 ELSE Head(body).len + 1 + BodyLen(Tail(body))

\* The message that is full is not pushed before it is emptied.
RECURSIVE joinItemsForgetFull(_, _, _)
joinItemsForgetFull(items, currentMsg, msgs) ==
    IF items = <<>>
    THEN IF BodyLen(currentMsg) > 0 THEN Append(msgs, currentMsg) ELSE msgs
    ELSE IF BodyLen(currentMsg) + Head(items).len > MaxContentLen
         THEN joinItemsForgetFull(Tail(items), <<Head(items)>>, msgs)
         ELSE joinItemsForgetFull(Tail(items), Append(currentMsg, Head(items)), msgs)

\* The last message is pushed without looking at its length.
RECURSIVE joinItemsPushLast(_, _, _)
joinItemsPushLast(items, currentMsg, msgs) ==
    IF items = <<>>
    THEN Append(msgs, currentMsg)
    ELSE IF BodyLen(currentMsg) + Head(items).len > MaxContentLen
         THEN joinItemsPushLast(Tail(items), <<Head(items)>>,
                                Append(msgs, currentMsg))
         ELSE joinItemsPushLast(Tail(items), Append(currentMsg, Head(items)),
                                msgs)

RECURSIVE joinItems(_, _, _)
joinItems(items, currentMsg, msgs) ==
    IF items = <<>>
    THEN IF BodyLen(currentMsg) > 0 THEN Append(msgs, currentMsg) ELSE msgs
    ELSE IF BodyLen(currentMsg) + Head(items).len > MaxContentLen
         THEN joinItems(Tail(items), <<Head(items)>>, Append(msgs, currentMsg))
         ELSE joinItems(Tail(items), Append(currentMsg, Head(items)), msgs)

itemsToMessageContents(header, items) == joinItems(<<header>> \o items, <<>>, <<>>)

\* The files of a PostData are numbered 1..files.
FileSeq(postData) == [i \in 1..postData.files |-> i]

buildDiscordAttachmentsOneMore(postData) ==
    chunkArray(FileSeq(postData), MAX_ATTACHMENTS_PER_MESSAGE + 1)

buildDiscordAttachments(postData) ==
    chunkArray(FileSeq(postData), MAX_ATTACHMENTS_PER_MESSAGE)

buildDiscordMessages(postData, attachmentURLs) ==
    itemsToMessageContents(
        [kind |-> "header", len |-> HeaderLen],
        [i \in 1..Len(attachmentURLs) |->
            [kind |-> "url", len |-> UrlLen, url |-> attachmentURLs[i]]])

\* filesMsg.attachments.values(): the host's attachments of batch b.
HostAttachments(b, fileMsg) ==
    [i \in 1..Len(fileMsg) |-> [batch |-> b, pos |-> i, file |-> fileMsg[i]]]

(***************************************************************************)
(* Orchestrator: snsHandler and snsService                                 *)
(***************************************************************************)
FileCounts == {0, 2, MAX_ATTACHMENTS_PER_MESSAGE + 4}

\* What fetchContent can return for a link: up to MaxPosts PostData records.
FetchResults(link) ==
    {[i \in 1..Len(fs) |-> [postLink |-> link, files |-> fs[i]]] :
        fs \in SeqsUpTo(FileCounts, MaxPosts)}

Messages ==
    [sendable : BOOLEAN, dl : BOOLEAN, content : Contents]

HIdle ==
    /\ posts = <<>>
    /\ acked = FALSE
    /\ hpc = "start"
    /\ gpc = "idle"
    /\ gIdx = 0
    /\ postDatas = <<>>
    /\ pIdx = 0
    /\ bIdx = 0
    /\ attachments = <<>>
    /\ mIdx = 0
    /\ plog = <<>>
    /\ raised = "none"
    /\ failSends = 0
    /\ failDelivered = 0
    /\ sentEarlier = FALSE
    /\ donePosts = 0
    /\ inFlight = 0

IgIdle ==
    /\ ipc = "idle"
    /\ now = 0
    /\ cancelAt = 0
    /\ pollState = "none"
    /\ lastResp = "none"
    /\ lastAt = 0
    /\ prevAll404 = TRUE
    /\ polls = 0
    /\ nTrigger = 0
    /\ nRetrieve = 0
    /\ nProgress = 0
    /\ nDownload = 0
    /\ mediaUrls = 0
    /\ igResult = "none"
    /\ trigResp = "none"
    /\ snapResp = "none"

NoCall == [fn |-> "none"]

FnIdle ==
    /\ call = NoCall
    /\ result = <<>>

DlIdle ==
    /\ dpc = "idle"
    /\ dlUrls = <<>>
    /\ dlSlots = <<>>
    /\ dlOrder = <<>>
    /\ dlAll = "none"
    /\ dlValue = <<>>

SinkIdle ==
    /\ progressMsg = 0
    /\ sinkOps = {}
    /\ channel = {}
    /\ nSends = 0
    /\ nUpdates = 0
    /\ doneIssued = FALSE
    /\ sinkFailed = FALSE

\* The invocations of snsHandler that run at the same time.
Invocations == {1, 2}

\* An invocation that has not run yet: no local binding is set.
IdleInvocation ==
    [pc |-> "idle", acks |-> "none", posts |-> <<>>, gIdx |-> 0,
     progressMsg |-> <<>>, ops |-> {}, nUp |-> 0, postData |-> <<>>,
     attachments |-> <<>>, threw |-> "none"]

ParIdle ==
    /\ invs = [i \in Invocations |-> IdleInvocation]
    /\ hostMsgs = {}

Init ==
    /\ msg \in Messages
    /\ HIdle
    /\ IgIdle
    /\ FnIdle
    /\ DlIdle
    /\ SinkIdle
    /\ ParIdle

\* The positions of plog at which the host accepted a message.
HostAccepted(l) == {i \in 1..Len(l) : l[i].op \in {"attachRet", "contentRet"}}

CurPost == postDatas[pIdx]
CurFileMsgs == buildDiscordAttachments(CurPost)
CurMsgs == buildDiscordMessages(CurPost, attachments)


\* The host accepted every attachment batch and every content message of the
\* current postData.
PostComplete ==
    /\ \A b \in 1..Len(CurFileMsgs) :
        \E j \in 1..Len(plog) : plog[j] = [op |-> "attachRet", idx |-> b]
    /\ \A m \in 1..Len(CurMsgs) :
        \E j \in 1..Len(plog) : plog[j] = [op |-> "contentRet", idx |-> m]

GeneratorEager(h) == TRUE

\* The for-await loop asks the generator for its next value only when the
\* loop body has run to its end.
GeneratorResumed(h) == h = "next"

AttachLoopFirstOnly(b, n) == b >= 1 \/ b = n

\* for (const fileMsg of fileMsgs): the loop is over.
AttachLoopDone(b, n) == b = n

OnThrowSkipLink(step) == "next"
OnThrowSwallow(step) == "done"

\* Where control goes when a step inside the try block throws.
OnThrow(step) == "catch"

Throw(step) ==
    /\ raised' = step
    /\ hpc' = OnThrow(step)

EarlyReturnNoLinkCheck(m) == ~m.sendable \/ ~m.dl
EarlyReturnNoPrefixCheck(m) ==
    ~m.sendable \/ Len(findAllSnsLinks(m.content)) = 0

\* snsHandler returns at once: the channel is not sendable, the content does
\* not start with "dl", or no link is found in it.
EarlyReturn(m) ==
    ~m.sendable \/ ~m.dl \/ Len(findAllSnsLinks(m.content)) = 0

\* snsHandler up to the try block: early returns, link extraction, acks.
HandlerStart ==
    /\ hpc = "start"
    /\ IF EarlyReturn(msg)
       THEN /\ hpc' = "done"
            /\ UNCHANGED <<posts, acked>>
       ELSE /\ posts' = findAllSnsLinks(msg.content)
            /\ acked' = TRUE
            /\ hpc' = "next"
    /\ UNCHANGED <<msg, gpc, gIdx, postDatas, pIdx, bIdx, attachments, mIdx,
                   plog, raised, failSends, failDelivered, sentEarlier>>
    /\ UNCHANGED <<donePosts, inFlight>>
    /\ UNCHANGED exceptH

\* snsService: one step of for (const snsLink of snsLinks), up to the call
\* of platform.fetchContent.
GeneratorStep ==
    /\ gpc = "idle"
    /\ hpc \notin {"start", "catch", "failWait", "done"}
    /\ GeneratorResumed(hpc)
    /\ IF gIdx = Len(posts)
       THEN /\ gpc' = "done"
            /\ hpc' = IF hpc = "next" THEN "done" ELSE hpc
            /\ UNCHANGED <<gIdx, raised, inFlight>>
       ELSE /\ gIdx' = gIdx + 1
            /\ IF getPlatform(posts[gIdx + 1]) = "throw"
               THEN /\ gpc' = "done"
                    /\ Throw("getPlatform")
                    /\ UNCHANGED inFlight
               ELSE /\ gpc' = "fetching"
                    /\ inFlight' = inFlight + 1
                    /\ UNCHANGED <<hpc, raised>>
    /\ UNCHANGED <<msg, posts, acked, postDatas, pIdx, bIdx, attachments, mIdx,
                   plog, failSends, failDelivered, sentEarlier, donePosts>>
    /\ UNCHANGED exceptH

\* await platform.fetchContent(...) returns; the generator yields the value
\* to the waiting for-await loop.
FetchReturn ==
    /\ gpc = "fetching"
    /\ hpc = "next"
    /\ \E r \in FetchResults(posts[gIdx]) :
        /\ postDatas' = r
        /\ pIdx' = 0
        /\ gpc' = "idle"
        /\ hpc' = "post"
    /\ donePosts' = 0
    /\ inFlight' = inFlight - 1
    /\ UNCHANGED <<msg, posts, acked, gIdx, bIdx, attachments, mIdx, plog,
                   raised, failSends, failDelivered, sentEarlier>>
    /\ UNCHANGED exceptH

\* await platform.fetchContent(...) rejects.
FetchThrow ==
    /\ gpc = "fetching"
    /\ hpc = "next"
    /\ gpc' = "done"
    /\ Throw("fetchContent")
    /\ inFlight' = inFlight - 1
    /\ UNCHANGED <<msg, posts, acked, gIdx, postDatas, pIdx, bIdx, attachments,
                   mIdx, plog, failSends, failDelivered, sentEarlier, donePosts>>
    /\ UNCHANGED exceptH

\* for (const postData of postDatas): next postData, or back to the generator.
PostStep ==
    /\ hpc = "post"
    /\ IF pIdx = Len(postDatas)
       THEN /\ hpc' = "next"
            /\ UNCHANGED <<pIdx, bIdx, attachments, mIdx, raised>>
       ELSE /\ pIdx' = pIdx + 1
            /\ bIdx' = 0
            /\ mIdx' = 0
            /\ attachments' = <<>>
            /\ IF getPlatform(postDatas[pIdx + 1].postLink) = "throw"
               THEN Throw("getPlatform")
               ELSE /\ hpc' = "attach"
                    /\ UNCHANGED raised
    /\ plog' = <<>>
    /\ sentEarlier' = (sentEarlier \/ HostAccepted(plog) # {})
    /\ UNCHANGED <<msg, posts, acked, gpc, gIdx, postDatas, failSends,
                   failDelivered>>
    /\ UNCHANGED <<donePosts, inFlight>>
    /\ UNCHANGED exceptH

\* for (const fileMsg of fileMsgs): call msg.channel.send(fileMsg), or leave
\* the loop and build the content messages.
AttachStep ==
    /\ hpc = "attach"
    /\ IF AttachLoopDone(bIdx, Len(CurFileMsgs))
       THEN /\ hpc' = "content"
            /\ UNCHANGED <<bIdx, plog>>
       ELSE /\ bIdx' = bIdx + 1
            /\ plog' = Append(plog, [op |-> "attachCall", idx |-> bIdx + 1])
            /\ hpc' = "attachWait"
    /\ UNCHANGED <<msg, posts, acked, gpc, gIdx, postDatas, pIdx, attachments,
                   mIdx, raised, failSends, failDelivered, sentEarlier>>
    /\ UNCHANGED <<donePosts, inFlight>>
    /\ UNCHANGED exceptH

PushAttachmentsInFront(acc, new) == new \o acc

\* attachments.push(...filesMsg.attachments.values())
PushAttachments(acc, new) == acc \o new

\* const links = attachments.map((attachment) => attachment.url): the URL
\* of a host attachment is told by the batch, the place in it and the file.
Links(atts) == [k \in 1..Len(atts) |-> atts[k]]

\* await msg.channel.send(fileMsg) returns the message with its attachments.
AttachReturn ==
    /\ hpc = "attachWait"
    /\ attachments' =
            PushAttachments(attachments, HostAttachments(bIdx, CurFileMsgs[bIdx]))
    /\ plog' = Append(plog, [op |-> "attachRet", idx |-> bIdx])
    /\ hpc' = "attach"
    /\ UNCHANGED <<msg, posts, acked, gpc, gIdx, postDatas, pIdx, bIdx, mIdx,
                   raised, failSends, failDelivered, sentEarlier>>
    /\ UNCHANGED <<donePosts, inFlight>>
    /\ UNCHANGED exceptH

\* await msg.channel.send(fileMsg) rejects.
AttachThrow ==
    /\ hpc = "attachWait"
    /\ plog' = Append(plog, [op |-> "attachThrow", idx |-> bIdx])
    /\ Throw("attachSend")
    /\ UNCHANGED <<msg, posts, acked, gpc, gIdx, postDatas, pIdx, bIdx,
                   attachments, mIdx, failSends, failDelivered, sentEarlier>>
    /\ UNCHANGED <<donePosts, inFlight>>
    /\ UNCHANGED exceptH

\* for (const postMsg of msgs): call msg.reply(...), or go to the next
\* postData.
ContentStep ==
    /\ hpc = "content"
    /\ IF mIdx = Len(CurMsgs)
       THEN /\ hpc' = "post"
            /\ donePosts' = IF PostComplete THEN donePosts + 1 ELSE donePosts
            /\ UNCHANGED <<mIdx, plog>>
       ELSE /\ mIdx' = mIdx + 1
            /\ plog' = Append(plog, [op |-> "contentCall", idx |-> mIdx + 1])
            /\ hpc' = "contentWait"
            /\ UNCHANGED donePosts
    /\ UNCHANGED <<msg, posts, acked, gpc, gIdx, postDatas, pIdx, bIdx,
                   attachments, raised, failSends, failDelivered, sentEarlier,
                   inFlight>>
    /\ UNCHANGED exceptH

\* await msg.reply(...) returns.
ContentReturn ==
    /\ hpc = "contentWait"
    /\ plog' = Append(plog, [op |-> "contentRet", idx |-> mIdx])
    /\ hpc' = "content"
    /\ UNCHANGED <<msg, posts, acked, gpc, gIdx, postDatas, pIdx, bIdx,
                   attachments, mIdx, raised, failSends, failDelivered, sentEarlier>>
    /\ UNCHANGED <<donePosts, inFlight>>
    /\ UNCHANGED exceptH

\* await msg.reply(...) rejects.
ContentThrow ==
    /\ hpc = "contentWait"
    /\ plog' = Append(plog, [op |-> "contentThrow", idx |-> mIdx])
    /\ Throw("contentSend")
    /\ UNCHANGED <<msg, posts, acked, gpc, gIdx, postDatas, pIdx, bIdx,
                   attachments, mIdx, failSends, failDelivered, sentEarlier>>
    /\ UNCHANGED <<donePosts, inFlight>>
    /\ UNCHANGED exceptH

\* catch (err): call msg.channel.send(errMsg).
CatchSend ==
    /\ hpc = "catch"
    /\ failSends' = failSends + 1
    /\ hpc' = "failWait"
    /\ UNCHANGED <<msg, posts, acked, gpc, gIdx, postDatas, pIdx, bIdx,
                   attachments, mIdx, plog, raised, failDelivered, sentEarlier>>
    /\ UNCHANGED <<donePosts, inFlight>>
    /\ UNCHANGED exceptH

\* await msg.channel.send(errMsg) returns or rejects; snsHandler ends.
CatchSendDone ==
    /\ hpc = "failWait"
    /\ \E ok \in BOOLEAN :
        failDelivered' = IF ok THEN failDelivered + 1 ELSE failDelivered
    /\ hpc' = "done"
    /\ UNCHANGED <<msg, posts, acked, gpc, gIdx, postDatas, pIdx, bIdx,
                   attachments, mIdx, plog, raised, failSends, sentEarlier>>
    /\ UNCHANGED <<donePosts, inFlight>>
    /\ UNCHANGED exceptH

Next ==
    \/ HandlerStart
    \/ GeneratorStep
    \/ FetchReturn
    \/ FetchThrow
    \/ PostStep
    \/ AttachStep
    \/ AttachReturn
    \/ AttachThrow
    \/ ContentStep
    \/ ContentReturn
    \/ ContentThrow
    \/ CatchSend
    \/ CatchSendDone

Spec == Init /\ [][Next]_vars

(***************************************************************************)
(* Job-based provider: InstagramPostDownloader.fetchContent                *)
(***************************************************************************)

\* How long a request or a timer overshoot can take, in ms.
Latencies == {0, SleepMs, PollTimeoutMs}

\* The clock stops counting once it is past every possible deadline.
MaxTime == 2 * PollTimeoutMs + SleepMs
Clock(t) == IF t > MaxTime THEN MaxTime ELSE t

\* Responses to the creation request: fetch rejects, status is not 200, the
\* body is not valid JSON of the schema, the body has no snapshot_id, or ok.
TriggerResponses == {"neterr", "non200", "badjson", "noid", "ok"}

\* Responses to a status poll: fetch rejects, 404, another status that is
\* not 200, 200 with a body the schema rejects, 200 with a parsed status.
PollResponses == {"neterr", "404", "other", "badjson", "running", "ready", "failed"}

\* Responses to the retrieval request.
SnapshotResponses ==
    [kind : {"neterr", "non200", "badjson", "empty", "nocontent"}, urls : {0}]
        \cup [kind : {"ok"}, urls : 0..MaxMedia]

DeadlineOneSleepEarly(t, deadline) == t + SleepMs >= deadline
DeadlineNever(t, deadline) == FALSE

\* if (Date.now() > cancelAt)
DeadlinePassed(t, deadline) == t > deadline

\* Every status that is not 200 is retried like a 404.
PollOutcomeRetryNon200(r, t, deadline) ==
    CASE r = "neterr" -> "Failed"
      [] r \in {"404", "other"} ->
            IF DeadlinePassed(t, deadline) THEN "TimedOut" ELSE "sleep"
      [] r = "badjson" -> "Failed"
      [] r = "failed" -> "Failed"
      [] r = "ready" -> "Ready"
      [] r = "running" -> "loop"

\* The parsed status "failed" is not looked at.
PollOutcomeIgnoreFailed(r, t, deadline) ==
    CASE r = "neterr" -> "Failed"
      [] r = "404" -> IF DeadlinePassed(t, deadline) THEN "TimedOut" ELSE "sleep"
      [] r = "other" -> "Failed"
      [] r = "badjson" -> "Failed"
      [] r \in {"failed", "running"} -> "loop"
      [] r = "ready" -> "Ready"

\* The loop is left on every parsed status that is not "failed".
PollOutcomeBreakOnRunning(r, t, deadline) ==
    CASE r = "neterr" -> "Failed"
      [] r = "404" -> IF DeadlinePassed(t, deadline) THEN "TimedOut" ELSE "sleep"
      [] r = "other" -> "Failed"
      [] r = "badjson" -> "Failed"
      [] r = "failed" -> "Failed"
      [] r \in {"ready", "running"} -> "Ready"

\* A status that is 200 with a body the schema rejects is polled again.
PollOutcomeRetryBadJson(r, t, deadline) ==
    CASE r = "neterr" -> "Failed"
      [] r = "404" -> IF DeadlinePassed(t, deadline) THEN "TimedOut" ELSE "sleep"
      [] r = "other" -> "Failed"
      [] r = "failed" -> "Failed"
      [] r = "ready" -> "Ready"
      [] r \in {"badjson", "running"} -> "loop"

\* One turn of the while (true) loop on a poll response r handled at time t.
\* The deadline is looked at for every response that arrives.
PollOutcomeDeadlineFirst(r, t, deadline) ==
    CASE r = "neterr" -> "Failed"
      [] r # "neterr" /\ DeadlinePassed(t, deadline) -> "TimedOut"
      [] r = "404" -> "sleep"
      [] r = "other" -> "Failed"
      [] r = "badjson" -> "Failed"
      [] r = "failed" -> "Failed"
      [] r = "ready" -> "Ready"
      [] r = "running" -> "loop"

PollOutcome(r, t, deadline) ==
    CASE r = "neterr" -> "Failed"
      [] r = "404" -> IF DeadlinePassed(t, deadline) THEN "TimedOut" ELSE "sleep"
      [] r = "other" -> "Failed"
      [] r = "badjson" -> "Failed"
      [] r = "failed" -> "Failed"
      [] r = "ready" -> "Ready"
      [] r = "running" -> "loop"

IdleMessage == [sendable |-> FALSE, dl |-> FALSE, content |-> <<>>]

InitIg ==
    /\ msg = IdleMessage
    /\ HIdle
    /\ IgIdle
    /\ FnIdle
    /\ DlIdle
    /\ SinkIdle
    /\ ParIdle

IgThrow ==
    /\ ipc' = "threw"
    /\ igResult' = "threw"

TriggerAcceptedNoIdCheck(r) == r \in {"ok", "noid"}

\* The creation response passed every check of fetchContent: status 200, a
\* body of the schema, and a snapshot_id in it.
TriggerAccepted(r) == r = "ok"

SnapshotAcceptedAnyBody(r) == r.kind \in {"ok", "badjson"}

\* The retrieval response passed every check: status 200, a body of the
\* schema, at least one post, and post_content in the first post.
SnapshotAccepted(r) == r.kind = "ok"

\* fetchContent up to await fetch(req): the creation request is issued.
IgFetchContent ==
    /\ ipc = "idle"
    /\ nTrigger' = nTrigger + 1
    /\ pollState' = "Submitted"
    /\ ipc' = "triggerWait"
    /\ UNCHANGED <<now, cancelAt, lastResp, lastAt, prevAll404, polls, nRetrieve,
                   nProgress, nDownload, mediaUrls, igResult>>
    /\ UNCHANGED <<trigResp, snapResp>>
    /\ UNCHANGED exceptI

\* The creation response is handled; on success the first progress update
\* is issued and waitUntilDataReady sets its deadline.
IgTriggerResponse ==
    /\ ipc = "triggerWait"
    /\ \E r \in TriggerResponses, d \in Latencies :
        /\ now' = Clock(now + d)
        /\ trigResp' = r
        /\ IF TriggerAccepted(r)
           THEN /\ nProgress' = nProgress + 1
                /\ cancelAt' = now' + PollTimeoutMs
                /\ pollState' = "Polling"
                /\ ipc' = "loop"
                /\ UNCHANGED igResult
           ELSE /\ IgThrow
                /\ UNCHANGED <<nProgress, cancelAt, pollState>>
    /\ UNCHANGED <<lastResp, lastAt, prevAll404, polls, nTrigger, nRetrieve,
                   nDownload, mediaUrls, snapResp>>
    /\ UNCHANGED exceptI

\* while (true) { const res = await fetch(req): a poll request is issued.
IgPollRequest ==
    /\ ipc = "loop"
    /\ polls' = Min(polls + 1, MaxPolls)
    /\ ipc' = "pollWait"
    /\ UNCHANGED <<now, cancelAt, pollState, lastResp, lastAt, prevAll404,
                   nTrigger, nRetrieve, nProgress, nDownload, mediaUrls, igResult>>
    /\ UNCHANGED <<trigResp, snapResp>>
    /\ UNCHANGED exceptI

\* The poll response is handled.
IgPollResponse ==
    /\ ipc = "pollWait"
    /\ \E r \in PollResponses, d \in Latencies :
        LET t == Clock(now + d)
            outcome == PollOutcome(r, t, cancelAt)
        IN /\ now' = t
           /\ lastAt' = t
           /\ lastResp' = r
           /\ prevAll404' = (prevAll404 /\ lastResp \in {"none", "404"})
           /\ CASE outcome = "sleep" ->
                    /\ ipc' = "sleeping"
                    /\ UNCHANGED <<pollState, igResult>>
                [] outcome = "loop" ->
                    /\ ipc' = "loop"
                    /\ UNCHANGED <<pollState, igResult>>
                [] outcome = "Ready" ->
                    /\ ipc' = "ready"
                    /\ pollState' = "Ready"
                    /\ UNCHANGED igResult
                [] OTHER ->
                    /\ IgThrow
                    /\ pollState' = outcome
    /\ UNCHANGED <<cancelAt, polls, nTrigger, nRetrieve, nProgress, nDownload,
                   mediaUrls>>
    /\ UNCHANGED <<trigResp, snapResp>>
    /\ UNCHANGED exceptI

\* await sleep(500) is over; continue.
IgSleepDone ==
    /\ ipc = "sleeping"
    /\ \E d \in Latencies : now' = Clock(now + SleepMs + d)
    /\ ipc' = "loop"
    /\ UNCHANGED <<cancelAt, pollState, lastResp, lastAt, prevAll404, polls,
                   nTrigger, nRetrieve, nProgress, nDownload, mediaUrls, igResult>>
    /\ UNCHANGED <<trigResp, snapResp>>
    /\ UNCHANGED exceptI

\* waitUntilDataReady returned: second progress update, then
\* fetchSnapshotData issues the retrieval request.
IgFetchSnapshotData ==
    /\ ipc = "ready"
    /\ nProgress' = nProgress + 1
    /\ nRetrieve' = nRetrieve + 1
    /\ ipc' = "snapshotWait"
    /\ UNCHANGED <<now, cancelAt, pollState, lastResp, lastAt, prevAll404, polls,
                   nTrigger, nDownload, mediaUrls, igResult>>
    /\ UNCHANGED <<trigResp, snapResp>>
    /\ UNCHANGED exceptI

\* The retrieval response is handled; on success downloadImages is called.
\* Date.now() is not read after polling, so the clock is left alone.
IgSnapshotResponse ==
    /\ ipc = "snapshotWait"
    /\ \E r \in SnapshotResponses :
        /\ snapResp' = r.kind
        /\ IF SnapshotAccepted(r)
           THEN /\ mediaUrls' = r.urls
                /\ nDownload' = nDownload + 1
                /\ ipc' = "downloadWait"
                /\ UNCHANGED igResult
           ELSE /\ IgThrow
                /\ UNCHANGED <<mediaUrls, nDownload>>
    /\ UNCHANGED <<now, cancelAt, pollState, lastResp, lastAt, prevAll404, polls,
                   nTrigger, nRetrieve, nProgress, trigResp>>
    /\ UNCHANGED exceptI

\* await this.downloadImages(mediaUrls) settles; on success the done update
\* is issued and the PostData returned.
IgDownloadDone ==
    /\ ipc = "downloadWait"
    /\ \E ok \in BOOLEAN :
        IF ok \/ mediaUrls = 0
        THEN /\ nProgress' = nProgress + 1
             /\ igResult' = "postData"
             /\ ipc' = "returned"
        ELSE /\ IgThrow
             /\ UNCHANGED nProgress
    /\ UNCHANGED <<now, cancelAt, pollState, lastResp, lastAt, prevAll404, polls,
                   nTrigger, nRetrieve, nDownload, mediaUrls>>
    /\ UNCHANGED <<trigResp, snapResp>>
    /\ UNCHANGED exceptI

NextIg ==
    \/ IgFetchContent
    \/ IgTriggerResponse
    \/ IgPollRequest
    \/ IgPollResponse
    \/ IgSleepDone
    \/ IgFetchSnapshotData
    \/ IgSnapshotResponse
    \/ IgDownloadDone

SpecIg == InitIg /\ [][NextIg]_vars

\* Every awaited request or timer settles and its continuation is run.
FairSpecIg == SpecIg /\ WF_vars(NextIg)

(***************************************************************************)
(* Pure functions: link extraction, chunking, assembly                     *)
(***************************************************************************)
Texts == SeqsUpTo(TextTokens, MaxText)

\* Array elements; equal elements can occur more than once in an array.
Elements == {"a", "b"}

\* A PostData with n files, of any link.
PostDataOf(n) ==
    [postLink |-> [platform |-> "twitter", url |-> 1, end |-> 1], files |-> n]

\* File counts up to two full batches and one file more.
PostFileCounts == 0..(2 * MAX_ATTACHMENTS_PER_MESSAGE + 1)

\* Lengths of items that fit into one message together with their newline.
ItemLens ==
    {1, MaxContentLen \div 2 - 1, MaxContentLen \div 2, MaxContentLen - 1}

\* Item lengths for the one-argument function: also the empty string, an
\* item of exactly the limit and one over it.
JoinLens == ItemLens \cup {0, MaxContentLen, MaxContentLen + 1}

\* The items of the given lengths; url tells them apart.
ItemsOf(lens) ==
    [i \in 1..Len(lens) |-> [kind |-> "url", len |-> lens[i], url |-> i]]

HeaderOf(n) == [kind |-> "header", len |-> n]

\* Buffer.from(await (await fetch(url)).arrayBuffer())
BufferOf(url) == [from |-> url]

(***************************************************************************)
(* Story bucketing: InstagramStoryDownloader.fetchContent                  *)
(***************************************************************************)

\* taken_at_date of an item without one (z.coerce.date().optional()).
NoDate == -1

\* Capture times, in hours UTC since a midnight UTC. Asia/Seoul is UTC+9:
\* 14 is 23:00 in Seoul on day 0, 15 is 00:00 on day 1, 38 is 23:00 on day 1.
Timestamps == {14, 15, 38}

\* A story item: capture time, and whether it has a (non-empty) video_url
\* and thumbnail_url.
StoryItems ==
    [taken_at_date : Timestamps \cup {NoDate}, video_url : BOOLEAN,
     thumbnail_url : BOOLEAN]

\* The calendar day of dayjs(t).tz("Asia/Seoul"), which format("YYMMDD")
\* writes out; days less than a century apart have different keys.
KstDay(t) == (t + 9) \div 24

\* dateKey of the "unknown" bucket.
UnknownKey == -1

DateKeyUtc(item) ==
    IF item.taken_at_date # NoDate
    THEN item.taken_at_date \div 24
    ELSE UnknownKey

\* An item without a date is filed under the first day.
DateKeyUndatedFirstDay(item) ==
    IF item.taken_at_date # NoDate THEN KstDay(item.taken_at_date) ELSE 0

\* let dateKey = "unknown"; if (item.taken_at_date) dateKey = ...
DateKey(item) ==
    IF item.taken_at_date # NoDate
    THEN KstDay(item.taken_at_date)
    ELSE UnknownKey

\* The URL of item i of the given kind.
MediaUrl(i, kind) == [item |-> i, kind |-> kind]

\* The thumbnail is pushed whenever there is one.
ItemUrlsBoth(item, i) ==
    (IF item.video_url THEN <<MediaUrl(i, "video")>> ELSE <<>>)
        \o (IF item.thumbnail_url THEN <<MediaUrl(i, "thumbnail")>> ELSE <<>>)

\* What item i pushes to storiesDay.urls.
ItemUrls(item, i) ==
    (IF item.video_url THEN <<MediaUrl(i, "video")>> ELSE <<>>)
        \o (IF ~item.video_url /\ item.thumbnail_url
            THEN <<MediaUrl(i, "thumbnail")>>
            ELSE <<>>)

\* The position of the key in the Map, 0 when it is not in it.
KeyPos(map, key) ==
    IF \E b \in 1..Len(map) : map[b].key = key
    THEN CHOOSE b \in 1..Len(map) : map[b].key = key
    ELSE 0

\* for (const item of igStoriesRes.data.items): the Map storiesByDate, as
\* its entries in insertion order, after the items from i on.
RECURSIVE storiesByDate(_, _, _)
storiesByDate(items, i, map) ==
    IF i > Len(items) THEN map
    ELSE LET item == items[i]
             key == DateKey(item)
             pos == KeyPos(map, key)
             storiesDay == IF pos > 0
                           THEN map[pos]
                           ELSE [key |-> key, date |-> item.taken_at_date,
                                 urls |-> <<>>]
             pushed == [storiesDay EXCEPT !.urls = @ \o ItemUrls(item, i)]
         IN storiesByDate(items, i + 1,
                          IF pos > 0 THEN [map EXCEPT ![pos] = pushed]
                          ELSE Append(map, pushed))

\* for (const { date, urls } of storiesByDate.values()): one PostData per
\* entry; its files are the downloads of urls, in order.
storyPostDatas(items) ==
    LET map == storiesByDate(items, 1, <<>>)
    IN [b \in 1..Len(map) |->
            [timestamp |-> map[b].date,
             files |-> [k \in 1..Len(map[b].urls) |-> BufferOf(map[b].urls[k])]]]

(***************************************************************************)
(* util.ts: formatDiscordTitle and getFileExtFromURL                       *)
(***************************************************************************)
\* Instants of the title tests, in hours since the start of day 0 (UTC):
\* midnight, 14:00, 15:00 and 16:00 of day 0, and 16:00 of day 1.
TitleDates == {NoDate, 0, 14, 15, 16, 40}

\* Hours the process's local timezone is ahead of UTC.
LocalOffsets == {0 - 8, 0, 9}

Usernames == {"", "testuser"}

\* platform[0].toUpperCase() + platform.slice(1)
platformToString(platform) ==
    CASE platform = "twitter" -> "Twitter"
      [] platform = "instagram" -> "Instagram"
      [] platform = "instagram-story" -> "Instagram-story"
      [] platform = "tiktok" -> "Tiktok"

\* dayjs(date).format("YYMMDD"): the calendar day in the process's timezone.
TagDayLocal(date, local) == (date + local) \div 24

\* dayjs(date).tz(KST_TIMEZONE).format("YYMMDD"), in a process whose local
\* timezone is local hours ahead of UTC: the calendar day in Asia/Seoul.
TagDay(date, local) == KstDay(date)

\* formatDiscordTitle(platform, username, date?), run in a process whose
\* local timezone is local hours ahead of UTC. The title is its pieces in
\* order between the two backticks: the tag (with its space) if (date), then
\* `${username} ${platformName} Update`.
formatDiscordTitle(platform, username, date, local) ==
    [tag |-> IF date # NoDate THEN <<TagDay(date, local)>> ELSE <<>>,
     text |-> <<username, " ", platformToString(platform), " Update">>]

\* A URL is https://example.com followed by a sequence of tokens that starts
\* with "/"; "?" starts the query.
UrlTokens == {"/", "image", ".", "png", "?"}
Urls == {u \in SeqsUpTo(UrlTokens, MaxPath) : u # <<>> /\ u[1] = "/"}

\* The place of the first "?" of url, or one past its end.
QueryStart(url) ==
    IF \E i \in 1..Len(url) : url[i] = "?"
    THEN CHOOSE i \in 1..Len(url) :
             url[i] = "?" /\ \A j \in 1..(i - 1) : url[j] # "?"
    ELSE Len(url) + 1

\* new URL(url).pathname
pathname(url) == SubSeq(url, 1, QueryStart(url) - 1)

\* s.split("."): the pieces between the dots, never an empty array.
RECURSIVE split(_, _, _)
split(str, i, pieces) ==
    IF i > Len(str) THEN pieces
    ELSE IF str[i] = "."
         THEN split(str, i + 1, Append(pieces, <<>>))
         ELSE split(str, i + 1,
                    [pieces EXCEPT ![Len(pieces)] = Append(@, str[i])])

\* urlObj.pathname.split(".").pop() ?? "jpg"
getFileExtFromURL(url) ==
    LET pieces == split(pathname(url), 1, << <<>> >>)
    IN IF pieces = <<>> THEN <<"jpg">> ELSE pieces[Len(pieces)]

(***************************************************************************)
(* tiktok.ts: the mirror that TikTokDownloader.fetchContent downloads      *)
(***************************************************************************)
Mirrors == {"m1", "m2"}

\* The parsed response: whether data...play_addr.url_list is there, and it.
TikTokResponses ==
    [present : {TRUE}, url_list : SeqsUpTo(Mirrors, MaxMirrors)]
        \cup [present : {FALSE}, url_list : {<<>>}]

\* arr[index] of JavaScript, index counted from 0.
ElementAt(arr, index) ==
    IF index + 1 <= Len(arr) THEN arr[index + 1] ELSE "undefined"

\* fetchContent from the parsed response to the call of downloadImages: the
\* error it throws, or the urls it passes to downloadImages.
tiktokDownload(ttPost) ==
    IF ~ttPost.present
    THEN [threw |-> "No data", urls |-> <<>>]
    ELSE IF Len(ttPost.url_list) = 0
    THEN [threw |-> "No TikTok videos urls found", urls |-> <<>>]
    ELSE [threw |-> "none", urls |-> <<ElementAt(ttPost.url_list, 1)>>]

Calls ==
    [fn : {"getFileExtFromURL"}, url : Urls]
        \cup
    [fn : {"tiktokDownload"}, ttPost : TikTokResponses]
        \cup
    [fn : {"formatDiscordTitle"}, platform : Platforms \cup {"tiktok"},
     username : Usernames, date : TitleDates, local : LocalOffsets]
        \cup [fn : {"findAllSnsLinks"}, content : Texts]
        \cup [fn : {"chunkArray"}, arr : SeqsUpTo(Elements, MaxArr),
              size : 1..MaxChunk]
        \cup [fn : {"buildDiscordAttachments"}, files : PostFileCounts]
        \cup [fn : {"itemsToMessageContents"}, header : ItemLens,
              lens : SeqsUpTo(ItemLens, MaxItems)]
        \cup [fn : {"joinItems"}, lens : SeqsUpTo(JoinLens, MaxItems)]
        \cup [fn : {"storyPostDatas"},
              items : SeqsUpTo(StoryItems, MaxStories) \ {<<>>}]

InitFn ==
    /\ msg = IdleMessage
    /\ HIdle
    /\ IgIdle
    /\ call \in Calls
    /\ result = <<>>
    /\ DlIdle
    /\ SinkIdle
    /\ ParIdle

Returns(fn, value) ==
    /\ call.fn = fn
    /\ result = <<>>
    /\ result' = <<value>>
    /\ UNCHANGED <<call, exceptF>>

CallFindAllSnsLinks ==
    Returns("findAllSnsLinks", findAllSnsLinks(call.content))

CallChunkArray ==
    Returns("chunkArray", chunkArray(call.arr, call.size))

CallBuildDiscordAttachments ==
    Returns("buildDiscordAttachments",
            buildDiscordAttachments(PostDataOf(call.files)))

CallItemsToMessageContents ==
    Returns("itemsToMessageContents",
            itemsToMessageContents(HeaderOf(call.header), ItemsOf(call.lens)))

\* The one-argument itemsToMessageContents(items).
CallJoinItems ==
    Returns("joinItems", joinItems(ItemsOf(call.lens), <<>>, <<>>))

\* The bucketing part of InstagramStoryDownloader.fetchContent, for a
\* response with at least one item and downloads that succeed.
CallStoryPostDatas ==
    Returns("storyPostDatas", storyPostDatas(call.items))

CallFormatDiscordTitle ==
    Returns("formatDiscordTitle",
            formatDiscordTitle(call.platform, call.username, call.date,
                               call.local))

CallGetFileExtFromURL ==
    Returns("getFileExtFromURL", getFileExtFromURL(call.url))

CallTiktokDownload ==
    Returns("tiktokDownload", tiktokDownload(call.ttPost))

NextFn ==
    \/ CallTiktokDownload
    \/ CallGetFileExtFromURL
    \/ CallFormatDiscordTitle
    \/ CallFindAllSnsLinks
    \/ CallChunkArray
    \/ CallBuildDiscordAttachments
    \/ CallItemsToMessageContents
    \/ CallJoinItems
    \/ CallStoryPostDatas

SpecFn == InitFn /\ [][NextFn]_vars

\* The value the called function returned.
Returned(fn) == call.fn = fn /\ result # <<>>
Value == result[1]

(***************************************************************************)
(* downloadImages: one promise per URL, joined by Promise.all              *)
(***************************************************************************)
MediaUrls == {"u1", "u2", "u3"}

\* Promise.all rejects only when every promise has settled.
PromiseAllStateWaitAll(slots) ==
    IF \E i \in 1..Len(slots) : slots[i].st \in {"fetching", "reading"}
    THEN "pending"
    ELSE IF \E i \in 1..Len(slots) : slots[i].st = "failed"
         THEN "rejected"
         ELSE "fulfilled"

\* Promise.all(ps): rejected as soon as one promise is, fulfilled when all
\* are (at once for an empty array), pending otherwise.
PromiseAllState(slots) ==
    IF \E i \in 1..Len(slots) : slots[i].st = "failed" THEN "rejected"
    ELSE IF \A i \in 1..Len(slots) : slots[i].st = "done" THEN "fulfilled"
    ELSE "pending"

\* The values are listed in the order in which the promises settled.
PromiseAllValueAsSettled(slots, order) ==
    [k \in 1..Len(order) |-> slots[order[k]].buf]

\* The fulfilment value of Promise.all(ps): the value of ps[i] at index i.
PromiseAllValue(slots, order) ==
    [i \in 1..Len(slots) |-> slots[i].buf]

InitDl ==
    /\ msg = IdleMessage
    /\ HIdle
    /\ IgIdle
    /\ FnIdle
    /\ dpc = "idle"
    /\ dlUrls \in SeqsUpTo(MediaUrls, MaxUrls)
    /\ dlSlots = <<>>
    /\ dlOrder = <<>>
    /\ dlAll = "none"
    /\ dlValue = <<>>
    /\ SinkIdle
    /\ ParIdle

\* A promise of ps changed to state st; Promise.all(ps) follows.
SlotSettles(i, st, buf) ==
    LET slots == [dlSlots EXCEPT ![i] = [st |-> st, buf |-> buf]]
        order == IF st \in {"done", "failed"} THEN Append(dlOrder, i) ELSE dlOrder
        all == PromiseAllState(slots)
    IN /\ dlSlots' = slots
       /\ dlOrder' = order
       /\ dlAll' = IF dlAll = "pending" THEN all ELSE dlAll
       /\ dlValue' = IF dlAll = "pending" /\ all = "fulfilled"
                     THEN PromiseAllValue(slots, order)
                     ELSE dlValue

\* await this.downloadImages(urls): urls.map starts every fetch, then
\* Promise.all(ps) is awaited.
DlCall ==
    /\ dpc = "idle"
    /\ dpc' = "waiting"
    /\ dlSlots' = [i \in 1..Len(dlUrls) |-> [st |-> "fetching", buf |-> "none"]]
    /\ dlAll' = PromiseAllState(dlSlots')
    /\ dlValue' = <<>>
    /\ UNCHANGED <<dlUrls, dlOrder>>
    /\ UNCHANGED exceptD

\* await fetch(url) of ps[i] resolves; res.arrayBuffer() is called.
DlFetchResolves ==
    /\ \E i \in 1..Len(dlSlots) :
        /\ dlSlots[i].st = "fetching"
        /\ SlotSettles(i, "reading", "none")
    /\ UNCHANGED <<dpc, dlUrls>>
    /\ UNCHANGED exceptD

\* await res.arrayBuffer() of ps[i] resolves; ps[i] is fulfilled with the
\* Buffer.
DlBodyResolves ==
    /\ \E i \in 1..Len(dlSlots) :
        /\ dlSlots[i].st = "reading"
        /\ SlotSettles(i, "done", BufferOf(dlUrls[i]))
    /\ UNCHANGED <<dpc, dlUrls>>
    /\ UNCHANGED exceptD

\* await fetch(url) or await res.arrayBuffer() of ps[i] rejects.
DlSlotRejects ==
    /\ \E i \in 1..Len(dlSlots) :
        /\ dlSlots[i].st \in {"fetching", "reading"}
        /\ SlotSettles(i, "failed", "none")
    /\ UNCHANGED <<dpc, dlUrls>>
    /\ UNCHANGED exceptD

\* The caller's await of downloadImages is resumed: with the Buffers, from
\* which it builds the files of its PostData, or with the thrown error.
DlCallerResumes ==
    /\ dpc = "waiting"
    /\ dlAll \in {"fulfilled", "rejected"}
    /\ dpc' = IF dlAll = "fulfilled" THEN "returned" ELSE "threw"
    /\ UNCHANGED <<dlUrls, dlSlots, dlOrder, dlAll, dlValue>>
    /\ UNCHANGED exceptD

NextDl ==
    \/ DlCall
    \/ DlFetchResolves
    \/ DlBodyResolves
    \/ DlSlotRejects
    \/ DlCallerResumes

SpecDl == InitDl /\ [][NextDl]_vars

(***************************************************************************)
(* Status sink: progressUpdater, called by fetchContent without await      *)
(***************************************************************************)
InitSink ==
    /\ msg = IdleMessage
    /\ HIdle
    /\ IgIdle
    /\ FnIdle
    /\ DlIdle
    /\ SinkIdle
    /\ ParIdle

\* The channel operation progressUpdater awaits when called with done while
\* progressMsg holds m: the n-th call's delete, edit or send.
SinkOp(done, m, n, id) ==
    IF done /\ m # 0 THEN [op |-> "delete", id |-> m, n |-> n]
    ELSE IF m # 0 THEN [op |-> "edit", id |-> m, n |-> n]
    ELSE [op |-> "send", id |-> id, n |-> n]

\* progressCallback?.(content, done): progressUpdater runs up to its await.
\* A downloader calls it without done first, and with done = true last,
\* before it returns; the fetchContent of the next link of the message
\* is given the same progressUpdater and calls it again.
SinkCall ==
    /\ nUpdates < MaxUpdates
    /\ \E done \in BOOLEAN :
        LET o == SinkOp(done, progressMsg, nUpdates + 1, nSends + 1)
        IN /\ done => (nUpdates >= 1 /\ ~doneIssued)
           /\ sinkOps' = sinkOps \cup {o}
           /\ nSends' = IF o.op = "send" THEN nSends + 1 ELSE nSends
           /\ doneIssued' = done
    /\ nUpdates' = nUpdates + 1
    /\ UNCHANGED <<progressMsg, channel, sinkFailed>>
    /\ UNCHANGED exceptS

\* progressMsg = await msg.channel.send(content) returns the new message.
SinkSendReturns ==
    /\ \E o \in sinkOps :
        /\ o.op = "send"
        /\ sinkOps' = sinkOps \ {o}
        /\ channel' = channel \cup {o.id}
        /\ progressMsg' = o.id
    /\ UNCHANGED <<nSends, nUpdates, doneIssued, sinkFailed>>
    /\ UNCHANGED exceptS

\* await progressMsg.edit(content) returns: the message is in the channel.
SinkEditReturns ==
    /\ \E o \in sinkOps :
        /\ o.op = "edit"
        /\ o.id \in channel
        /\ sinkOps' = sinkOps \ {o}
    /\ UNCHANGED <<progressMsg, channel, nSends, nUpdates, doneIssued, sinkFailed>>
    /\ UNCHANGED exceptS

\* await progressMsg.delete() returns: the message is gone.
SinkDeleteReturns ==
    /\ \E o \in sinkOps :
        /\ o.op = "delete"
        /\ o.id \in channel
        /\ sinkOps' = sinkOps \ {o}
        /\ channel' = channel \ {o.id}
    /\ UNCHANGED <<progressMsg, nSends, nUpdates, doneIssued, sinkFailed>>
    /\ UNCHANGED exceptS

\* The awaited operation rejects; catch (err) logs it.
SinkOpRejects ==
    /\ \E o \in sinkOps : sinkOps' = sinkOps \ {o}
    /\ sinkFailed' = TRUE
    /\ UNCHANGED <<progressMsg, channel, nSends, nUpdates, doneIssued>>
    /\ UNCHANGED exceptS

NextSink ==
    \/ SinkCall
    \/ SinkSendReturns
    \/ SinkEditReturns
    \/ SinkDeleteReturns
    \/ SinkOpRejects

SpecSink == InitSink /\ [][NextSink]_vars

(***************************************************************************)
(* Concurrent invocations of snsHandler: one per incoming message          *)
(***************************************************************************)
InitPar ==
    /\ msg = IdleMessage
    /\ HIdle
    /\ IgIdle
    /\ FnIdle
    /\ DlIdle
    /\ SinkIdle
    /\ ParIdle

\* The id the host gives the next message of a kind it creates for
\* invocation i: ids are unique, here the sender, the kind and a serial
\* number.
NewId(i, kind) ==
    <<i, kind, Cardinality({m \in hostMsgs : m.by = i /\ m.kind = kind}) + 1>>

\* The channel operation progressUpdater awaits when called with done
\* while progressMsg holds m (<<>> for null).
ParOp(done, m) ==
    IF done /\ m # <<>> THEN [op |-> "delete", id |-> m]
    ELSE IF m # <<>> THEN [op |-> "edit", id |-> m]
    ELSE [op |-> "send", id |-> <<>>]

progressMsgOfModule(st, i) == st[1].progressMsg

\* let progressMsg: Message | null = null, declared in the body of
\* snsHandler: the binding the closure progressUpdater of invocation i reads.
progressMsgOf(st, i) == st[i].progressMsg

\* const posts = findAllSnsLinks(msg.content) of the message of invocation
\* i, which holds n links.
ParPosts(i, n) == [k \in 1..n |-> [msg |-> i, k |-> k]]

\* snsHandler(msg) is called for the message of invocation i and runs up to
\* the first fetchContent of the generator. The Promise.all of the three
\* acknowledgements is not awaited: acks tells how it will settle, and its
\* catch only logs.
ParStart(i) ==
    /\ invs[i].pc = "idle"
    /\ \E n \in 1..MaxParLinks, a \in {"resolves", "rejects"} :
        invs' = [invs EXCEPT ![i].pc = "fetch", ![i].posts = ParPosts(i, n),
                             ![i].gIdx = 1, ![i].acks = a]
    /\ UNCHANGED hostMsgs
    /\ UNCHANGED exceptP

\* fetchContent of invocation i calls progressCallback without await.
ParProgress(i) ==
    /\ invs[i].pc = "fetch"
    /\ invs[i].nUp < MaxParUpdates
    /\ \E done \in BOOLEAN :
        /\ done => invs[i].nUp >= 1
        /\ invs' = [invs EXCEPT
                       ![i].ops = @ \cup {ParOp(done, progressMsgOf(invs, i))},
                       ![i].nUp = @ + 1]
    /\ UNCHANGED hostMsgs
    /\ UNCHANGED exceptP

\* progressMsg = await msg.channel.send(content) of invocation i returns
\* the message the host created.
ParSendReturns(i) ==
    /\ \E o \in invs[i].ops :
        /\ o.op = "send"
        /\ hostMsgs' = hostMsgs \cup
                            {[id |-> NewId(i, "status"), by |-> i, kind |-> "status"]}
        /\ invs' = [invs EXCEPT ![i].ops = @ \ {o},
                                ![i].progressMsg = NewId(i, "status")]
    /\ UNCHANGED exceptP

\* An awaited edit or delete of invocation i returns.
ParOpSettles(i) ==
    /\ \E o \in invs[i].ops :
        /\ o.op # "send"
        /\ invs' = [invs EXCEPT ![i].ops = @ \ {o}]
    /\ UNCHANGED hostMsgs
    /\ UNCHANGED exceptP

AfterSinkRejectRethrow(pc) == "failed"

\* catch (err) { logger.error(...) } of progressUpdater: the rejection ends
\* there, and fetchContent and snsHandler are where they were.
AfterSinkReject(pc) == pc

\* An awaited send, edit or delete of the status sink of invocation i is
\* rejected by the host.
ParOpRejects(i) ==
    /\ \E o \in invs[i].ops :
        invs' = [invs EXCEPT ![i].ops = @ \ {o},
                             ![i].pc = AfterSinkReject(@)]
    /\ UNCHANGED hostMsgs
    /\ UNCHANGED exceptP

\* await platform.fetchContent(snsLink, processFn) returns and the generator
\* yields: invocation i has the postData of its current link.
ParFetchReturns(i) ==
    /\ invs[i].pc = "fetch"
    /\ invs' = [invs EXCEPT
                   ![i].pc = "attach",
                   ![i].postData = <<[postLink |-> invs[i].posts[invs[i].gIdx]]>>,
                   ![i].attachments = <<>>]
    /\ UNCHANGED hostMsgs
    /\ UNCHANGED exceptP

\* await msg.channel.send(fileMsg) of invocation i returns the message with
\* its attachment, whose URL names the host message that carries it.
ParAttachReturns(i) ==
    /\ invs[i].pc = "attach"
    /\ hostMsgs' = hostMsgs \cup {[id |-> NewId(i, "files"), by |-> i, kind |-> "files"]}
    /\ invs' = [invs EXCEPT
                   ![i].pc = "content",
                   ![i].attachments =
                       PushAttachments(@, <<[host |-> NewId(i, "files"),
                                             of |-> invs[i].postData[1].postLink]>>)]
    /\ UNCHANGED exceptP

\* await msg.reply(postMsg) of invocation i returns; the for-loops go on to
\* the next link or snsHandler returns.
ParContentReturns(i) ==
    /\ invs[i].pc = "content"
    /\ hostMsgs' = hostMsgs \cup
                        {[id |-> NewId(i, "content"), by |-> i, kind |-> "content"]}
    /\ invs' = [invs EXCEPT
                   ![i].pc = IF invs[i].gIdx < Len(invs[i].posts)
                             THEN "fetch" ELSE "done",
                   ![i].gIdx = IF invs[i].gIdx < Len(invs[i].posts)
                               THEN @ + 1 ELSE @]
    /\ UNCHANGED exceptP

\* A step of the try block of invocation i throws; the catch block sends
\* the failure message and snsHandler returns, which ends the bindings of
\* its loops.
ParThrows(i) ==
    /\ invs[i].pc \in {"fetch", "attach", "content"}
    /\ hostMsgs' = hostMsgs \cup
                        {[id |-> NewId(i, "failure"), by |-> i, kind |-> "failure"]}
    /\ invs' = [invs EXCEPT ![i].pc = "failed", ![i].threw = invs[i].pc,
                            ![i].posts = <<>>, ![i].gIdx = 0,
                            ![i].postData = <<>>, ![i].attachments = <<>>]
    /\ UNCHANGED exceptP

NextPar ==
    \E i \in Invocations :
        \/ ParStart(i)
        \/ ParProgress(i)
        \/ ParSendReturns(i)
        \/ ParOpSettles(i)
        \/ ParOpRejects(i)
        \/ ParFetchReturns(i)
        \/ ParAttachReturns(i)
        \/ ParContentReturns(i)
        \/ ParThrows(i)

SpecPar == InitPar /\ [][NextPar]_vars

(***************************************************************************)
(* Claims about the orchestrator (checked under Spec)                      *)
(***************************************************************************)

\* C1: when a content message of a postData is handed to the host, every
\* attachment batch of that postData was sent before and its send returned.
C1_ContentAfterUploads ==
    \A i \in 1..Len(plog) :
        plog[i].op = "contentCall" =>
            \A b \in 1..Len(CurFileMsgs) :
                \E j \in 1..(i - 1) : plog[j] = [op |-> "attachRet", idx |-> b]

\* A content message was sent for a postData with two attachment batches.
C1_Witness ==
    /\ hpc = "contentWait"
    /\ Len(CurFileMsgs) = 2
    /\ Len(attachments) = CurPost.files

\* C2: while fetchContent of a link is in flight, no other fetchContent is,
\* the handler is waiting for the generator, and every postData of the link
\* fetched before had all its attachment batches and content messages sent.
C2_LinksSequential ==
    /\ inFlight <= 1
    /\ gpc = "fetching" =>
        /\ hpc = "next"
        /\ inFlight = 1
        /\ pIdx = Len(postDatas)
        /\ donePosts = Len(postDatas)

\* fetchContent of the second link is in flight after the first link yielded
\* two postDatas, one of them with files.
C2_Witness ==
    /\ gpc = "fetching"
    /\ gIdx = 2
    /\ Len(postDatas) = 2
    /\ \E p \in 1..2 : postDatas[p].files > 0

FetchCalled == gpc' = "fetching" /\ gpc # "fetching"
AttachCalled == hpc' = "attachWait" /\ hpc # "attachWait"
ContentCalled == hpc' = "contentWait" /\ hpc # "contentWait"

\* C3: once a step has thrown, no fetchContent call, attachment send or
\* content send is made any more: not for a later link, not as a retry.
C3_FailFast ==
    [][raised # "none" => ~(FetchCalled \/ AttachCalled \/ ContentCalled)]_vars

\* The handler ended after an attachment send threw with a link left.
C3_Witness ==
    /\ hpc = "done"
    /\ raised = "attachSend"
    /\ gIdx < Len(posts)

FailureCount ==
    /\ failSends \in {0, 1}
    /\ failSends = 1 => raised # "none"
    /\ failDelivered <= failSends
    /\ hpc = "done" => (failSends = 1 <=> raised # "none")

CatchKeepsSent ==
    hpc \in {"catch", "failWait"} =>
        (UNCHANGED <<plog, sentEarlier, attachments>> /\ ~(AttachCalled \/ ContentCalled))

\* C4: the failure message is sent once when a step threw and never
\* otherwise, and the catch block leaves the messages already sent alone.
C4_OneFailureMessage == []FailureCount /\ [][CatchKeepsSent]_vars

\* The handler ended with one failure message after messages of an earlier
\* postData had been sent.
C4_Witness ==
    /\ hpc = "done"
    /\ raised # "none"
    /\ failSends = 1
    /\ failDelivered = 1
    /\ sentEarlier

(***************************************************************************)
(* Claims about the job-polling protocol (checked under SpecIg, the        *)
(* liveness ones under FairSpecIg)                                         *)
(***************************************************************************)
PollTerminal == {"Ready", "Failed", "TimedOut"}

\* C5: a not-found response handled before the deadline keeps the protocol
\* polling, and a ready response that follows only not-found responses ends
\* it in Ready, never in a timeout.
C5_ReadyAfterNotFound ==
    /\ (lastResp = "404" /\ lastAt < cancelAt) =>
            (pollState = "Polling" /\ ipc # "threw")
    /\ (lastResp = "ready" /\ prevAll404) =>
            (pollState = "Ready" /\ ipc # "loop" /\ ipc # "pollWait")

\* Ready is reached on a ready response handled 9 of the 10 seconds after
\* polling began, all earlier responses having been not-found.
C5_Witness ==
    /\ ipc = "ready"
    /\ pollState = "Ready"
    /\ lastResp = "ready"
    /\ prevAll404
    /\ polls >= 2
    /\ lastAt = cancelAt - 2 * SleepMs

TimedOutOnLate404 ==
    /\ (lastResp = "404" /\ lastAt > cancelAt) =>
            (pollState = "TimedOut" /\ ipc = "threw" /\ igResult = "threw")
    /\ pollState = "TimedOut" => (lastResp = "404" /\ lastAt > cancelAt)

\* C6: a not-found response handled after the deadline (10 s after polling
\* began) raises the timeout and nothing is requested after it; and when the
\* responses are all not-found, polling does end in TimedOut.
C6_TimedOut ==
    /\ []TimedOutOnLate404
    /\ [][ipc # "threw"]_vars
    /\ (pollState = "Polling") ~>
            (pollState = "TimedOut" \/ lastResp \notin {"none", "404"})

\* The timeout was raised after at least two earlier not-found responses.
C6_Witness ==
    /\ pollState = "TimedOut"
    /\ prevAll404
    /\ polls >= 3
    /\ ipc = "threw"

\* C7: a poll response with a status other than 200 and 404 ends the
\* protocol in Failed at once: no wait, no further poll, no retrieval.
C7_OtherStatusFails ==
    lastResp = "other" =>
        /\ pollState = "Failed"
        /\ ipc = "threw"
        /\ igResult = "threw"
        /\ nRetrieve = 0

\* Such a response was handled before the deadline.
C7_Witness ==
    /\ lastResp = "other"
    /\ lastAt < cancelAt
    /\ pollState = "Failed"

\* C8: a 200 poll response whose body reports "failed" ends the protocol in
\* Failed at once: no further poll and no retrieval request.
C8_FailedStatusFails ==
    lastResp = "failed" =>
        /\ pollState = "Failed"
        /\ ipc = "threw"
        /\ igResult = "threw"
        /\ nRetrieve = 0

\* A failed status was reported after a not-found response.
C8_Witness ==
    /\ lastResp = "failed"
    /\ prevAll404
    /\ polls >= 2
    /\ pollState = "Failed"

\* C9: Polling is always left, for Ready, Failed or TimedOut.
C9_PollingBounded == (pollState = "Polling") ~> (pollState \in PollTerminal)

\* C10: the retrieval request is issued only after a ready response, once
\* for a job that reached Ready, never for one that Failed or TimedOut.
C10_RetrieveOnceWhenReady ==
    /\ nRetrieve \in {0, 1}
    /\ nRetrieve = 1 => (lastResp = "ready" /\ pollState = "Ready")
    /\ pollState \in {"Failed", "TimedOut"} => nRetrieve = 0
    /\ (pollState = "Ready" /\ ipc # "ready") => nRetrieve = 1

\* fetchContent returned a PostData after the one retrieval request.
C10_Witness ==
    /\ ipc = "returned"
    /\ pollState = "Ready"
    /\ nRetrieve = 1
    /\ polls >= 2

RetrievalFailed == snapResp \in {"non200", "badjson"}

\* C11: when the retrieval response is not a 200 or its body does not parse
\* against the schema, fetchContent throws: no PostData, no media download,
\* the one retrieval request is not repeated, and no step follows.
C11_RetrievalFailureIsFatal ==
    /\ [](RetrievalFailed =>
            /\ ipc = "threw"
            /\ igResult = "threw"
            /\ nDownload = 0
            /\ nRetrieve = 1)
    /\ [][~RetrievalFailed]_vars

\* The retrieval response had a body the schema rejects, after a job that
\* was polled more than once and reached Ready.
C11_Witness ==
    /\ snapResp = "badjson"
    /\ pollState = "Ready"
    /\ polls >= 2
    /\ ipc = "threw"

\* C12: a creation response that is a 200 with a body of the schema but
\* without a job identifier makes fetchContent throw before Polling: no
\* poll, no retrieval request, no progress update, no download.
C12_NoJobIdIsFatal ==
    trigResp = "noid" =>
        /\ ipc = "threw"
        /\ igResult = "threw"
        /\ pollState = "Submitted"
        /\ polls = 0
        /\ nRetrieve = 0
        /\ nProgress = 0
        /\ nDownload = 0

\* The creation request was answered, late, without a job identifier.
C12_Witness ==
    /\ trigResp = "noid"
    /\ nTrigger = 1
    /\ now > 0
    /\ igResult = "threw"

RequestCounts ==
    /\ nTrigger <= 1
    /\ nRetrieve <= 1
    /\ ipc # "idle" => nTrigger = 1

PollIssued == ipc = "loop" /\ ipc' = "pollWait"

PollIssuedOnlyWhilePending ==
    PollIssued =>
        /\ pollState = "Polling"
        /\ lastResp \in {"none", "404", "running"}

\* C13: within one fetchContent the creation request and the retrieval
\* request are each issued at most once, and a status poll is issued only
\* as the first poll or after a not-found or still-running response, never
\* after a response that failed the job.
C13_NoRetry == []RequestCounts /\ [][PollIssuedOnlyWhilePending]_vars

\* A third poll is in flight after a not-found and a still-running response.
C13_Witness ==
    /\ ipc = "pollWait"
    /\ polls >= 3
    /\ lastResp = "running"
    /\ prevAll404
    /\ nTrigger = 1

(***************************************************************************)
(* Claims about the entry of snsHandler (checked under Spec)               *)
(***************************************************************************)

\* C14: for a message in which no link is found the handler does nothing:
\* no acks (embed suppression, reaction, typing), no fetchContent, no
\* attachment or content message, no failure message; the status message is
\* only ever written by fetchContent's progress callback.
C14_NoLinkNoEffect ==
    Len(findAllSnsLinks(msg.content)) = 0 =>
        /\ hpc \in {"start", "done"}
        /\ ~acked
        /\ posts = <<>>
        /\ gpc = "idle"
        /\ gIdx = 0
        /\ inFlight = 0
        /\ postDatas = <<>>
        /\ plog = <<>>
        /\ ~sentEarlier
        /\ raised = "none"
        /\ failSends = 0

\* snsHandler returned for a "dl" message without a link in a sendable
\* channel.
C14_Witness ==
    /\ hpc = "done"
    /\ msg.sendable
    /\ msg.dl
    /\ Len(findAllSnsLinks(msg.content)) = 0

\* C15 as stated: every message in a sendable channel that holds a link has
\* fetchContent called for its first link before snsHandler ends.
C15_AnyLinkProcessed ==
    (msg.sendable /\ Len(findAllSnsLinks(msg.content)) > 0 /\ hpc = "done")
        => gIdx >= 1

\* C15: a message in a sendable channel whose content starts with "dl" and
\* holds a link has fetchContent called for the first extracted link before
\* snsHandler ends; a message that does not start with "dl" is not
\* processed, whatever links it holds.
C15_PrefixedLinkProcessed ==
    /\ (msg.sendable /\ msg.dl /\ Len(findAllSnsLinks(msg.content)) > 0) =>
            /\ hpc # "start" => posts = findAllSnsLinks(msg.content)
            /\ hpc = "done" => gIdx >= 1
            /\ (gIdx = 1 /\ gpc = "fetching") => inFlight = 1
    /\ ~msg.dl =>
            /\ gIdx = 0
            /\ inFlight = 0
            /\ ~acked
            /\ posts = <<>>

\* fetchContent of the first of two links is in flight.
C15_Witness ==
    /\ msg.dl
    /\ gpc = "fetching"
    /\ gIdx = 1
    /\ Len(posts) = 2
    /\ posts[1] = findAllSnsLinks(msg.content)[1]

(***************************************************************************)
(* Claims about link extraction (checked under SpecFn)                     *)
(***************************************************************************)

\* C16 as stated: the links are listed in the order in which their matches
\* begin in the text, links of different platforms included.
C16_TextOrder ==
    Returned("findAllSnsLinks") =>
        \A i, j \in 1..Len(Value) : i < j => Value[i].url < Value[j].url

\* The place of a platform in the list findAllSnsLinks builds.
PlatformRank(platform) ==
    CASE platform = "twitter" -> 1
      [] platform = "instagram" -> 2
      [] platform = "instagram-story" -> 3

\* C16: links of one platform are listed in the order in which their
\* matches begin in the text; links of different platforms are listed by
\* platform (twitter, instagram post, instagram story), wherever they are
\* in the text.
C16_OrderWithinPlatform ==
    Returned("findAllSnsLinks") =>
        \A i, j \in 1..Len(Value) : i < j =>
            /\ PlatformRank(Value[i].platform) <= PlatformRank(Value[j].platform)
            /\ Value[i].platform = Value[j].platform => Value[i].url < Value[j].url

\* A twitter URL that ends the text is listed before the two instagram URLs
\* in front of it.
C16_Witness ==
    /\ Returned("findAllSnsLinks")
    /\ Len(Value) = 3
    /\ Value[1] = [platform |-> "twitter", url |-> 3, end |-> 3]
    /\ Value[2].platform = "instagram"
    /\ Value[3].platform = "instagram"
    /\ Value[2].url < Value[3].url

\* C17: no two links of findAllSnsLinks cover a common part of the text.
C17_NoOverlap ==
    Returned("findAllSnsLinks") =>
        \A i, j \in 1..Len(Value) : i # j =>
            Value[i].end < Value[j].url \/ Value[j].end < Value[i].url

(***************************************************************************)
(* Claims about chunking and assembly (checked under SpecFn)               *)
(***************************************************************************)
CeilDiv(a, b) == (a + b - 1) \div b

\* The batches have the sizes of a split of l elements into chunks of n.
BatchSizes(out, l, n) ==
    /\ Len(out) = CeilDiv(l, n)
    /\ \A k \in 1..(Len(out) - 1) : Len(out[k]) = n
    /\ Len(out) > 0 => Len(out[Len(out)]) \in 1..n
    /\ l = 0 => out = <<>>

\* C18: chunkArray of l elements with size n >= 1 gives ceil(l / n) chunks,
\* all but the last of n elements, the last of 1..n elements, none for the
\* empty array; buildDiscordAttachments splits the files of a PostData so,
\* with n = 10, and no batch has more than 10 files.
C18_BatchSizes ==
    /\ Returned("chunkArray") => BatchSizes(Value, Len(call.arr), call.size)
    /\ Returned("buildDiscordAttachments") =>
            /\ BatchSizes(Value, call.files, 10)
            /\ \A k \in 1..Len(Value) : Len(Value[k]) <= 10

\* Twenty-one files were split into three batches, the last of one file.
C18_Witness ==
    /\ Returned("buildDiscordAttachments")
    /\ call.files = 21
    /\ Len(Value) = 3
    /\ Len(Value[3]) = 1

RECURSIVE Flatten(_)
Flatten(chunks) ==
    IF chunks = <<>> THEN <<>> ELSE Head(chunks) \o Flatten(Tail(chunks))

\* C19: the chunks of chunkArray, concatenated in order, are the input
\* array: nothing is dropped, duplicated or reordered.
C19_ChunksConcatToInput ==
    /\ Returned("chunkArray") => Flatten(Value) = call.arr
    /\ Returned("buildDiscordAttachments") =>
            Flatten(Value) = FileSeq(PostDataOf(call.files))

\* Five elements, some of them equal, were split into chunks of two.
C19_Witness ==
    /\ Returned("chunkArray")
    /\ call.arr = <<"a", "b", "b", "a", "b">>
    /\ call.size = 2
    /\ Value = << <<"a", "b">>, <<"b", "a">>, <<"b">> >>

\* C20: no body itemsToMessageContents returns is longer than 2000
\* characters, the newline after each item counted, when every item with
\* its newline fits into 2000 characters.
C20_BodiesWithinLimit ==
    (\/ Returned("itemsToMessageContents")
     \/ /\ Returned("joinItems")
        /\ \A k \in 1..Len(call.lens) : call.lens[k] + 1 <= MaxContentLen) =>
        \A k \in 1..Len(Value) : BodyLen(Value[k]) <= MaxContentLen

\* C21: the lines of the bodies itemsToMessageContents returns, taken body
\* by body in order, are the header (first line of the first body only)
\* followed by the items in their order: every item is in exactly one body.
C21_JoinLossless ==
    /\ Returned("joinItems") => Flatten(Value) = ItemsOf(call.lens)
    /\ Returned("itemsToMessageContents") =>
            /\ Flatten(Value) = <<HeaderOf(call.header)>> \o ItemsOf(call.lens)
            /\ Value[1][1] = HeaderOf(call.header)

\* A header and three items were joined into more than one body.
C21_Witness ==
    /\ Returned("itemsToMessageContents")
    /\ Len(call.lens) = 3
    /\ Len(Value) >= 2
    /\ Len(Value[1]) >= 2

(***************************************************************************)
(* Claims about downloadImages (checked under SpecDl)                      *)
(***************************************************************************)

\* C22: downloadImages starts one request per URL before it waits for any,
\* and whatever the order in which the requests complete, the array it
\* returns has the length of urls and holds at index i the Buffer fetched
\* from urls[i].
C22_InputOrder ==
    /\ dpc # "idle" => Len(dlSlots) = Len(dlUrls)
    /\ dlAll = "fulfilled" =>
            /\ Len(dlValue) = Len(dlUrls)
            /\ \A i \in 1..Len(dlUrls) : dlValue[i] = BufferOf(dlUrls[i])

\* Three different URLs were downloaded; the last one completed first.
C22_Witness ==
    /\ dpc = "returned"
    /\ dlUrls = <<"u1", "u2", "u3">>
    /\ dlOrder = <<3, 1, 2>>
    /\ Len(dlValue) = 3

\* C23: as soon as one download has failed, downloadImages is rejected and
\* has no value, also when other downloads succeeded or are still under
\* way; the caller is resumed with the error and never with Buffers.
C23_AllOrNothing ==
    /\ (\E i \in 1..Len(dlSlots) : dlSlots[i].st = "failed") =>
            /\ dlAll = "rejected"
            /\ dlValue = <<>>
            /\ dpc \in {"waiting", "threw"}
    /\ dpc = "returned" => \A i \in 1..Len(dlSlots) : dlSlots[i].st = "done"

\* The caller was resumed with the error of the second download while the
\* first had succeeded and the third was still under way.
C23_Witness ==
    /\ dpc = "threw"
    /\ Len(dlSlots) = 3
    /\ dlSlots[1].st = "done"
    /\ dlSlots[2].st = "failed"
    /\ dlSlots[3].st = "fetching"

(***************************************************************************)
(* Claims about story bucketing (checked under SpecFn)                     *)
(***************************************************************************)

\* The items of the call that have a capture time and push a URL.
DatedWithMedia ==
    {i \in 1..Len(call.items) :
        /\ call.items[i].taken_at_date # NoDate
        /\ ItemUrls(call.items[i], i) # <<>>}

\* The PostDatas of the returned list that hold a file of item i.
PostDatasOf(i) ==
    {p \in 1..Len(Value) :
        \E k \in 1..Len(Value[p].files) : Value[p].files[k].from.item = i}

\* C24: two items captured on the same Asia/Seoul calendar day put their
\* media into one and the same PostData, two items captured on different
\* Asia/Seoul days into different ones, and there are as many PostDatas
\* with a timestamp as there are Asia/Seoul days among the items.
C24_BucketsByKstDay ==
    Returned("storyPostDatas") =>
        /\ \A i, j \in DatedWithMedia :
                /\ Cardinality(PostDatasOf(i)) = 1
                /\ (KstDay(call.items[i].taken_at_date)
                        = KstDay(call.items[j].taken_at_date))
                    <=> PostDatasOf(i) = PostDatasOf(j)
        /\ Cardinality({p \in 1..Len(Value) : Value[p].timestamp # NoDate})
                = Cardinality({KstDay(call.items[i].taken_at_date) :
                                i \in {j \in 1..Len(call.items) :
                                         call.items[j].taken_at_date # NoDate}})

\* Items of 23:00 and 00:00 Seoul time of one UTC day went to two PostDatas,
\* and the third, of the next UTC day, joined the second.
C24_Witness ==
    /\ Returned("storyPostDatas")
    /\ Len(call.items) = 3
    /\ call.items[1].taken_at_date = 14
    /\ call.items[2].taken_at_date = 15
    /\ call.items[3].taken_at_date = 38
    /\ Len(Value) = 2
    /\ Len(Value[1].files) = 1
    /\ Len(Value[2].files) = 2

\* C25: the media of every item without a capture time are in the one
\* PostData without a timestamp, whatever the other items are, and no
\* media of an item with a capture time are in it.
C25_UnknownBucket ==
    Returned("storyPostDatas") =>
        /\ Cardinality({p \in 1..Len(Value) : Value[p].timestamp = NoDate}) <= 1
        /\ (\E i \in 1..Len(call.items) : call.items[i].taken_at_date = NoDate)
                => \E p \in 1..Len(Value) : Value[p].timestamp = NoDate
        /\ \A p \in 1..Len(Value) : \A k \in 1..Len(Value[p].files) :
                (call.items[Value[p].files[k].from.item].taken_at_date = NoDate)
                    <=> Value[p].timestamp = NoDate

\* Two items without a capture time, with an item of day 0 between them,
\* are in the PostData without a timestamp.
C25_Witness ==
    /\ Returned("storyPostDatas")
    /\ Len(call.items) = 3
    /\ call.items[1].taken_at_date = NoDate
    /\ call.items[2].taken_at_date = 14
    /\ call.items[3].taken_at_date = NoDate
    /\ Len(Value) = 2
    /\ Value[1].timestamp = NoDate
    /\ Len(Value[1].files) = 2

\* The files of the returned PostDatas that come from item i.
FilesOf(i) ==
    {<<p, k>> \in (1..Len(Value)) \X (1..MaxStories * 2) :
        /\ k <= Len(Value[p].files)
        /\ Value[p].files[k].from.item = i}

\* C26: every story item has at most one file in the PostDatas: its video
\* when it has a video URL, else its thumbnail when it has a thumbnail URL,
\* else none.
C26_VideoOverThumbnail ==
    Returned("storyPostDatas") =>
        \A i \in 1..Len(call.items) :
            LET item == call.items[i]
                kinds == {Value[pk[1]].files[pk[2]].from.kind : pk \in FilesOf(i)}
            IN /\ Cardinality(FilesOf(i)) <= 1
               /\ item.video_url => kinds = {"video"}
               /\ (~item.video_url /\ item.thumbnail_url) => kinds = {"thumbnail"}
               /\ (~item.video_url /\ ~item.thumbnail_url) => kinds = {}

\* An item with video and thumbnail, one with a thumbnail only and one with
\* neither were bucketed.
C26_Witness ==
    /\ Returned("storyPostDatas")
    /\ Len(call.items) = 3
    /\ call.items[1].video_url /\ call.items[1].thumbnail_url
    /\ ~call.items[2].video_url /\ call.items[2].thumbnail_url
    /\ ~call.items[3].video_url /\ ~call.items[3].thumbnail_url
    /\ Len(Value) = 1
    /\ Len(Value[1].files) = 2

\* C27: every PostData the story fetch returns has at least one file.
C27_NoEmptyPostData ==
    Returned("storyPostDatas") =>
        \A p \in 1..Len(Value) : Len(Value[p].files) >= 1

(***************************************************************************)
(* Claims about the status sink (checked under SpecSink)                   *)
(***************************************************************************)

\* C28: once the update with done = true was issued and no operation of
\* the sink is outstanding, none rejected by the host, no status message
\* is in the channel.
C28_StatusRetracted ==
    (doneIssued /\ sinkOps = {} /\ ~sinkFailed) => channel = {}

\* C29: the sink sends at most one status message; every later update
\* that is not done edits that message.
C29_OneStatusMessage ==
    /\ nSends <= 1
    /\ \A o \in sinkOps : (o.op # "delete" /\ o.n > 1) => o.op = "edit"

(***************************************************************************)
(* Claims about the collection of host URLs (checked under Spec)           *)
(***************************************************************************)

\* The URLs in the content messages of the current postData, in order.
UrlsInMsgs ==
    LET items == Flatten(CurMsgs)
    IN [k \in 1..(Len(items) - 1) |-> items[k + 1].url]

\* C30: when the content messages of a postData are built, the URL list
\* has one URL per file of postData.files, the k-th being the URL the host
\* assigned to the k-th file (batch after batch, in the order within the
\* batch), and these host URLs are the URLs of the content messages.
C30_UrlsInFileOrder ==
    hpc \in {"content", "contentWait"} =>
        /\ Len(Links(attachments)) = CurPost.files
        /\ \A k \in 1..Len(attachments) :
                Links(attachments)[k] =
                    [batch |-> ((k - 1) \div MAX_ATTACHMENTS_PER_MESSAGE) + 1,
                     pos |-> ((k - 1) % MAX_ATTACHMENTS_PER_MESSAGE) + 1,
                     file |-> k]
        /\ UrlsInMsgs = Links(attachments)

\* The content messages of a postData with fourteen files, uploaded in two
\* batches, are being sent.
C30_Witness ==
    /\ hpc = "contentWait"
    /\ CurPost.files = 14
    /\ Len(attachments) = 14
    /\ attachments[11].batch = 2
    /\ Len(CurMsgs) >= 2
    /\ mIdx = 2

(***************************************************************************)
(* Claims about util.ts (checked under SpecFn)                             *)
(***************************************************************************)

\* C31: the title carries a date tag exactly when a timestamp is given, and
\* the tag is the calendar day of the timestamp at UTC+9 whatever the
\* process's timezone: from 15:00 UTC of day D on it is day D + 1.
C31_TagIsKstDay ==
    Returned("formatDiscordTitle") =>
        /\ (Value.tag = <<>>) <=> (call.date = NoDate)
        /\ call.date # NoDate =>
               Value.tag = <<(call.date \div 24)
                              + (IF call.date % 24 >= 15 THEN 1 ELSE 0)>>

\* The title of a timestamp at 16:00 UTC of day 0, formatted in a process
\* that is not in Asia/Seoul, is tagged day 1.
C31_Witness ==
    /\ Returned("formatDiscordTitle")
    /\ call.date = 16
    /\ call.local = 0 - 8
    /\ Value.tag = <<1>>

\* The place of the last "." of a path, or 0.
LastDot(path) ==
    IF \E i \in 1..Len(path) : path[i] = "."
    THEN CHOOSE i \in 1..Len(path) :
             path[i] = "." /\ \A j \in (i + 1)..Len(path) : path[j] # "."
    ELSE 0

\* C32: getFileExtFromURL returns the text after the last "." of the path,
\* without the query, and "jpg" for a URL whose path has no ".".
C32_ExtOrJpg ==
    Returned("getFileExtFromURL") =>
        LET path == pathname(call.url)
        IN IF LastDot(path) = 0
           THEN Value = <<"jpg">>
           ELSE Value = SubSeq(path, LastDot(path) + 1, Len(path))

(***************************************************************************)
(* Claims about concurrent invocations (checked under SpecPar)             *)
(***************************************************************************)

\* C33: under every interleaving of two invocations of snsHandler, an
\* invocation edits and deletes only a status message it sent itself, and
\* its links, its postData and its durable URLs are those of its own
\* incoming message and of its own uploads.
C33_NoSharedState ==
    \A i \in Invocations :
        /\ \A o \in invs[i].ops :
               o.op # "send" =>
                   [id |-> o.id, by |-> i, kind |-> "status"] \in hostMsgs
        /\ \A k \in 1..Len(invs[i].posts) : invs[i].posts[k].msg = i
        /\ \A k \in 1..Len(invs[i].postData) :
               invs[i].postData[k].postLink.msg = i
        /\ \A k \in 1..Len(invs[i].attachments) :
               /\ [id |-> invs[i].attachments[k].host, by |-> i,
                   kind |-> "files"] \in hostMsgs
               /\ invs[i].attachments[k].of = invs[i].postData[1].postLink

\* Both invocations have an edit of their own status message outstanding
\* while one of them sends the content of its link.
C33_Witness ==
    /\ \E o \in invs[1].ops : o.op = "edit"
    /\ \E o \in invs[2].ops : o.op = "edit"
    /\ invs[1].progressMsg # invs[2].progressMsg
    /\ invs[1].pc = "content"
    /\ invs[2].pc = "fetch"

(***************************************************************************)
(* Further claims about the job-based provider (checked under SpecIg)      *)
(***************************************************************************)

\* C34: fetchContent never returns a PostData built from zero media URLs:
\* a retrieved post that yields no media URL makes it throw.
C34_NoPostDataWithoutMedia ==
    igResult = "postData" => mediaUrls >= 1

(***************************************************************************)
(* Claims about the TikTok provider (checked under SpecFn)                 *)
(***************************************************************************)

\* C35: for every parsed response, fetchContent either throws a content
\* error before any download, or downloads exactly one URL, which is an
\* element of the response's url_list.
C35_DownloadsOneMirror ==
    Returned("tiktokDownload") =>
        \/ Value.threw # "none" /\ Value.urls = <<>>
        \/ /\ Value.threw = "none"
           /\ Len(Value.urls) = 1
           /\ \E k \in 1..Len(call.ttPost.url_list) :
                  Value.urls[1] = call.ttPost.url_list[k]

(***************************************************************************)
(* Further claims about the status sink (checked under SpecSink)           *)
(***************************************************************************)

\* The edits and deletes a step issues target a message of the channel.
IssuedOpsTargetLive ==
    \A o \in sinkOps' \ sinkOps : o.op # "send" => o.id \in channel

\* C36: every edit or delete the status sink issues targets a status
\* message that is in the channel: after the done update deleted it, no
\* later update of the invocation edits or deletes that message.
C36_NoOpOnDeletedMessage == [][IssuedOpsTargetLive]_vars

(***************************************************************************)
(* Further claims about the orchestrator (checked under Spec)              *)
(***************************************************************************)

\* C37: getPlatform finds a registered downloader for every link of
\* findAllSnsLinks, so "Unsupported platform" is never thrown; and the
\* downloader that builds and sends a postData is the one that owns the
\* platform tag of the link the postData was fetched for.
C37_DownloaderOwnsLink ==
    /\ raised # "getPlatform"
    /\ \A k \in 1..Len(posts) : getPlatform(posts[k]) = posts[k].platform
    /\ hpc \in {"attach", "attachWait", "content", "contentWait"} =>
           /\ CurPost.postLink = posts[gIdx]
           /\ getPlatform(CurPost.postLink) = posts[gIdx].platform

\* The content of a postData fetched for a story link, the second link of
\* the message, is being sent.
C37_Witness ==
    /\ hpc = "contentWait"
    /\ gIdx = 2
    /\ CurPost.postLink.platform = "instagram-story"

(***************************************************************************)
(* Further claims about concurrent invocations (checked under SpecPar)     *)
(***************************************************************************)

\* The messages of a kind that the host created for invocation i.
MsgsOf(i, kind) == {m \in hostMsgs : m.by = i /\ m.kind = kind}

\* C38: a rejected operation of the status sink and rejected
\* acknowledgements do not abort the pipeline: snsHandler ends in its catch
\* block, and sends the failure message, only when a step of the try block
\* threw, and when it returns otherwise the content of every link of the
\* message was sent.
C38_SinkAndAcksNeverAbort ==
    \A i \in Invocations :
        /\ invs[i].pc = "failed" <=> invs[i].threw # "none"
        /\ MsgsOf(i, "failure") # {} <=> invs[i].threw # "none"
        /\ invs[i].pc = "done" =>
               Cardinality(MsgsOf(i, "content")) = Len(invs[i].posts)

\* Invocation 1 returned after it sent the content of both links of its
\* message, although its acknowledgements were rejected and so was the send
\* of its status message.
C38_Witness ==
    /\ invs[1].pc = "done"
    /\ invs[1].acks = "rejects"
    /\ invs[1].nUp >= 1
    /\ invs[1].ops = {}
    /\ invs[1].progressMsg = <<>>
    /\ Len(invs[1].posts) = 2
    /\ Cardinality(MsgsOf(1, "content")) = 2
    /\ MsgsOf(1, "failure") = {}

(***************************************************************************)
(* The deadline of waitUntilDataReady (checked under SpecIg)               *)
(***************************************************************************)

\* C39: the deadline is consulted only for a not-found poll response. The
\* wait times out only on a 404 handled strictly after the deadline; a
\* ready response ends in Ready, a failed one in Failed and a running one
\* in another poll, whether or not the deadline has passed.
C39_DeadlineOnlyOnNotFound ==
    /\ pollState = "TimedOut" => (lastResp = "404" /\ lastAt > cancelAt)
    /\ (lastResp = "404" /\ lastAt > cancelAt) => pollState = "TimedOut"
    /\ lastResp = "ready" => pollState = "Ready"
    /\ lastResp = "failed" => pollState = "Failed"
    /\ lastResp = "running" => pollState = "Polling"

\* A ready response was handled after the deadline and ended the wait in
\* Ready.
C39_Witness ==
    /\ lastResp = "ready"
    /\ lastAt > cancelAt
    /\ pollState = "Ready"

(***************************************************************************)
(* Empty bodies of itemsToMessageContents (checked under SpecFn)           *)
(***************************************************************************)

\* C40: when no item is longer than the limit, itemsToMessageContents
\* returns no empty body, and for an empty list of items it returns no
\* body at all, so no empty content message is handed to the host.
C40_NoEmptyBody ==
    Returned("joinItems") =>
        /\ (\A k \in 1..Len(call.lens) : call.lens[k] <= MaxContentLen) =>
               \A b \in 1..Len(Value) : Value[b] # <<>>
        /\ call.lens = <<>> => Value = <<>>

\* Items that start with one of exactly the limit were joined into more
\* than one body, none of them empty.
C40_Witness ==
    /\ Returned("joinItems")
    /\ Len(call.lens) >= 2
    /\ call.lens[1] = MaxContentLen
    /\ \A k \in 1..Len(call.lens) : call.lens[k] <= MaxContentLen
    /\ Len(Value) >= 2
    /\ \A b \in 1..Len(Value) : Value[b] # <<>>

====
